---- MODULE Spec2Model ----
(***************************************************************************)
(* A model of vg's VGset (src/vg_set.cpp): a list of graph files that is   *)
(* traversed one file at a time (transform, for_each), the identifier      *)
(* space merge built on the mutating traversal (merge_id_space), the path  *)
(* splitting chunk pass (to_xg) and the buffered k-mer indexing            *)
(* (index_kmers).                                                          *)
(***************************************************************************)
EXTENDS Integers, Sequences, FiniteSets, TLC

VARIABLES
    op,           \* the VGset operation that is running
    filenames,    \* VGset::filenames, fixed at construction
    fs,           \* the named files on disk: a graph, or Missing
    stdin,        \* what std::cin still holds: a graph, or Eof
    pc,           \* position of the running operation
    idx,          \* position of the file loop in filenames (1-based)
    g,            \* the graph loaded by the current loop iteration
    err,          \* the message of the exception thrown, "" while none
    max_node_id,  \* merge_id_space: the running maximum
    ret,          \* merge_id_space: the value returned
    events,       \* observation: the load/apply/write/delete steps so far
    index,        \* the key-value Index collaborator
    buffer,       \* index_kmers: vector<vector<KmerMatch>>, one per thread
    pending,      \* index_kmers: occurrences the enumeration has yet to deliver
    flushed,      \* index_kmers: buffers the final flush has written
    pushed,       \* observation: the matches each thread has pushed, per graph
    batches,      \* observation: the batches written for the graph at hand
    touches,      \* observation: which worker has used which buffer, and how
    moved_from,   \* to_xg: what the build leaves in a moved-from message
    mappings,     \* to_xg: map<string, map<int64_t, Mapping>> mappings
    removed_paths,\* to_xg: map<string, Path>& removed_paths
    chunk_in,     \* observation: the chunk of the open file last decoded
    forwarded,    \* observation: the chunk last handed to the XG builder
    filed,        \* observation: the mappings filed in the table, in order
    seen,         \* observation: names of the matching paths decoded
    failures,     \* observation: the writes the environment has failed
    cout,         \* export: what the graph at hand has had inserted into the stream
    writers,      \* export: each worker's place in the callback, and its record
    kps           \* export: the records the enumeration has yet to deliver

iterVars == <<op, filenames, fs, stdin, pc, idx, g, err, events>>
mergeVars == <<max_node_id, ret>>
kmerVars == <<buffer, pending, flushed, pushed, batches, touches>>
xgVars == <<moved_from, mappings, removed_paths, chunk_in, forwarded,
            filed, seen>>
faultVars == <<failures>>
exportVars == <<cout, writers, kps>>
vars == <<iterVars, mergeVars, index, kmerVars, xgVars, faultVars, exportVars>>

(***************************************************************************)
(* Bounds of the model.                                                    *)
(***************************************************************************)
MaxFiles == 3
MaxNodeId == 2
\* index_kmers: the nodes of all graphs of the set together, the number of
\* threads of the OpenMP team, and the k-mer length asked for.
MaxSetNodes == 2
NumThreads == 2
KmerSize == 2
\* buffer_max_size is 100000 at line 204; the model scales it down.
buffer_max_size == 1
\* to_xg: the mappings of matching paths decoded in one run.
MaxMappings == 3

FileNames == {"-", "a", "b"}
NodeIds == 1..MaxNodeId

\* A name with no file behind it, the exhausted standard input, and the
\* null graph pointer.
Missing == [exists |-> FALSE, nodes |-> {}]
Eof == [eof |-> TRUE, nodes |-> {}]
NoGraph == [live |-> FALSE, name |-> "", nodes |-> {}]
\* A Graph message with no path.
NoChunk == [path |-> <<>>]

(***************************************************************************)
(* Helpers.                                                                *)
(***************************************************************************)
Max(S) == CHOOSE m \in S : \A x \in S : x <= m

Range(s) == {s[i] : i \in DOMAIN s}

SeqsUpTo(S, n) == UNION {[1..k -> S] : k \in 0..n}

(***************************************************************************)
(* The VG collaborator (vg.cpp is not part of the sources at hand): a      *)
(* graph is its set of node identifiers.                                   *)
(***************************************************************************)
Files == [exists : {TRUE}, nodes : SUBSET NodeIds]

Streams == [eof : {FALSE}, nodes : SUBSET NodeIds]

\* VG::VG(istream&): decodes the whole stream into a graph; an exhausted
\* stream decodes to the graph with no node.  g->name is set by the caller.
VG(in, name) == [live |-> TRUE, name |-> name, nodes |-> in.nodes]

\* VG::max_node_id(): the largest identifier, 0 for a graph with no node.
vg_max_node_id(graph) == IF graph.nodes = {} THEN 0 ELSE Max(graph.nodes)

\* VG::increment_node_ids(increment): every identifier grows by increment.
increment_node_ids(graph, increment) ==
    [graph EXCEPT !.nodes = {n + increment : n \in graph.nodes}]

(***************************************************************************)
(* The Index collaborator: what has been handed to it.                     *)
(***************************************************************************)
EmptyIndex == [graphs |-> <<>>, kmers |-> {}, kmer_sizes |-> <<>>]

Event(e, i, graph) == [ev |-> e, pos |-> i, nodes |-> graph.nodes]

Mutating == op \in {"merge_id_space", "transform"}

(***************************************************************************)
(* VGset::transform / VGset::for_each, lines 8-19 and 31-42: the head of   *)
(* the loop body.  "-" reads std::cin; any other name is opened, and a     *)
(* failed open throws and so ends the whole operation.                     *)
(***************************************************************************)
load_failure(name) == "failed to open " \o name

\* A loop head that passes over a name it cannot open instead of throwing.
load_skipping ==
    /\ pc = "load"
    /\ idx <= Len(filenames)
    /\ LET name == filenames[idx] IN
       IF name # "-" /\ fs[name] = Missing
       THEN /\ idx' = idx + 1
            /\ UNCHANGED <<faultVars, exportVars,
                   g, stdin, events, pc>>
       ELSE /\ g' = VG(IF name = "-" THEN stdin ELSE fs[name], name)
            /\ stdin' = IF name = "-" THEN Eof ELSE stdin
            /\ pc' = "apply"
            /\ events' = Append(events, Event("load", idx, g'))
            /\ idx' = idx
    /\ UNCHANGED <<faultVars, exportVars,
                   op, filenames, fs, err, mergeVars, index, kmerVars, xgVars>>

load ==
    /\ pc = "load"
    /\ idx <= Len(filenames)
    /\ LET name == filenames[idx] IN
       IF name = "-"
       THEN /\ g' = VG(stdin, name)
            /\ stdin' = Eof
            /\ pc' = "apply"
            /\ err' = err
            /\ events' = Append(events, Event("load", idx, g'))
       ELSE IF fs[name] = Missing
       THEN /\ pc' = "failed"
            /\ err' = load_failure(name)
            /\ UNCHANGED <<faultVars, exportVars,
                   g, stdin, events>>
       ELSE /\ g' = VG(fs[name], name)
            /\ pc' = "apply"
            /\ events' = Append(events, Event("load", idx, g'))
            /\ UNCHANGED <<faultVars, exportVars,
                   stdin, err>>
    /\ UNCHANGED <<faultVars, exportVars,
                   op, filenames, fs, idx, mergeVars, index, kmerVars, xgVars>>

(***************************************************************************)
(* VGset::merge_id_space, lines 51-54: the action given to transform.      *)
(***************************************************************************)
\* A merge that forgets the shift.
merge_lambda_unshifted(graph, running) == graph

merge_lambda(graph, running) ==
    IF running > 0 THEN increment_node_ids(graph, running) ELSE graph

apply_merge_id_space ==
    /\ pc = "apply"
    /\ op = "merge_id_space"
    /\ g' = merge_lambda(g, max_node_id)
    /\ max_node_id' = vg_max_node_id(g')
    /\ events' = Append(events, Event("apply", idx, g'))
    /\ pc' = "write"
    /\ UNCHANGED <<faultVars, exportVars,
                   op, filenames, fs, stdin, idx, err, ret, index, kmerVars, xgVars>>

(***************************************************************************)
(* VGset::store_in_index, lines 171-174: the action given to for_each.     *)
(***************************************************************************)
apply_store_in_index ==
    /\ pc = "apply"
    /\ op = "store_in_index"
    /\ index' = [index EXCEPT !.graphs = Append(@, g)]
    /\ events' = Append(events, Event("apply", idx, g))
    /\ pc' = "delete"
    /\ UNCHANGED <<faultVars, exportVars,
                   op, filenames, fs, stdin, idx, g, err, mergeVars, kmerVars, xgVars>>

(***************************************************************************)
(* VGset::transform, lines 23-25: the graph is serialized over the file of *)
(* the same name (for "-" that is a file named "-", not a standard stream).*)
(***************************************************************************)
serialize_to_ostream(files, name, graph) ==
    [files EXCEPT ![name] = [exists |-> TRUE, nodes |-> graph.nodes]]

write_back ==
    /\ pc = "write"
    /\ fs' = serialize_to_ostream(fs, filenames[idx], g)
    /\ events' = Append(events, Event("write", idx, g))
    /\ pc' = "delete"
    /\ UNCHANGED <<faultVars, exportVars,
                   op, filenames, stdin, idx, g, err, mergeVars, index, kmerVars, xgVars>>

(***************************************************************************)
(* Lines 26 and 45: delete g, and the loop moves to the next name.         *)
(***************************************************************************)
delete_g ==
    /\ pc = "delete"
    /\ events' = Append(events, [ev |-> "delete", pos |-> idx, nodes |-> {}])
    /\ g' = NoGraph
    /\ idx' = idx + 1
    /\ pc' = "load"
    /\ UNCHANGED <<faultVars, exportVars,
                   op, filenames, fs, stdin, err, mergeVars, index, kmerVars, xgVars>>

(***************************************************************************)
(* The loop is over: merge_id_space returns the running maximum (line 56), *)
(* store_in_index just returns.                                            *)
(***************************************************************************)
finish ==
    /\ pc = "load"
    /\ idx > Len(filenames)
    /\ op \in {"merge_id_space", "store_in_index"}
    /\ ret' = IF op = "merge_id_space" THEN max_node_id ELSE ret
    /\ pc' = "done"
    /\ UNCHANGED <<faultVars, exportVars,
                   op, filenames, fs, stdin, idx, g, err, events,
                   max_node_id, index, kmerVars, xgVars>>

(***************************************************************************)
(* The state after construction of a VGset over a file list, as one of its *)
(* operations is entered.  Files the list does not name play no part and   *)
(* are left out of the disk.                                               *)
(***************************************************************************)
FileLists == SeqsUpTo(FileNames, MaxFiles)

InitSet(ops) ==
    /\ op \in ops
    /\ filenames \in FileLists
    /\ fs \in [FileNames -> Files \cup {Missing}]
    /\ \A n \in FileNames \ Range(filenames) : fs[n] = Missing
    /\ pc = "load"
    /\ idx = 1
    /\ g = NoGraph
    /\ err = ""
    /\ max_node_id = 0
    /\ ret = 0
    /\ events = <<>>
    /\ index = EmptyIndex
    /\ buffer = <<>>
    /\ pending = {}
    /\ flushed = {}
    /\ pushed = <<>>
    /\ batches = {}
    /\ touches = {}
    /\ mappings = <<>>
    /\ removed_paths = <<>>
    /\ chunk_in = NoChunk
    /\ forwarded = NoChunk
    /\ filed = <<>>
    /\ seen = {}
    /\ failures = {}
    /\ cout = <<>>
    /\ writers = <<>>
    /\ kps = {}

Init ==
    /\ InitSet({"merge_id_space", "store_in_index"})
    /\ fs["-"] = Missing
    /\ stdin \in IF "-" \in Range(filenames) THEN Streams ELSE {Eof}
    /\ moved_from = "unchanged"

Next ==
    \/ load
    \/ apply_merge_id_space
    \/ apply_store_in_index
    \/ write_back
    \/ delete_g
    \/ finish

Spec == Init /\ [][Next]_vars

(***************************************************************************)
(* VGset::transform, lines 7-28, called with an action that leaves the     *)
(* graph as it is.                                                         *)
(***************************************************************************)
identity_lambda(graph) == graph

\* Line 21.
apply_identity ==
    /\ pc = "apply"
    /\ op = "transform"
    /\ g' = identity_lambda(g)
    /\ events' = Append(events, Event("apply", idx, g'))
    /\ pc' = "write"
    /\ UNCHANGED <<faultVars, exportVars, op, filenames, fs, stdin, idx, err,
                   mergeVars, index, kmerVars, xgVars>>

\* Line 28.
transform_done ==
    /\ pc = "load"
    /\ idx > Len(filenames)
    /\ op = "transform"
    /\ pc' = "done"
    /\ UNCHANGED <<faultVars, exportVars, op, filenames, fs, stdin, idx, g,
                   err, events, mergeVars, index, kmerVars, xgVars>>

InitTransform ==
    /\ InitSet({"transform"})
    /\ fs["-"] = Missing
    /\ stdin \in IF "-" \in Range(filenames) THEN Streams ELSE {Eof}
    /\ moved_from = "unchanged"

NextTransform ==
    \/ load
    \/ apply_identity
    \/ write_back
    \/ delete_g
    \/ transform_done

SpecTransform == InitTransform /\ [][NextTransform]_vars

(***************************************************************************)
(* VGset::index_kmers, lines 185-252: for_each over the set with an action *)
(* that enumerates the graph's k-mers in parallel into per-thread buffers, *)
(* writes a buffer to the index as one batch when it outgrows               *)
(* buffer_max_size, and writes every buffer once more after enumeration.   *)
(***************************************************************************)
Threads == 0..(NumThreads - 1)

\* The sequence a node carries (the model's graphs draw their nodes from
\* this fixed pool).
NodeSeq(n) ==
    CASE n = 1 -> <<"A", "C", "G", "T">>
      [] n = 2 -> <<"A", "N">>
      [] OTHER -> <<"T", "A">>

\* VG::for_each_kmer_parallel (a collaborator): the k-mer occurrences of a
\* graph, each delivered once to the callback on some thread.
KmerOccurrences(nodes) ==
    UNION {{[sequence |-> SubSeq(NodeSeq(n), p + 1, p + KmerSize),
             node_id |-> n, position |-> p] :
                p \in 0..(Len(NodeSeq(n)) - KmerSize)} : n \in nodes}

\* allATGC (a utility outside this file).
allATGC(kmer) == \A i \in DOMAIN kmer : kmer[i] \in {"A", "T", "G", "C"}

\* Lines 223-224.
KmerMatch(o) ==
    [sequence |-> o.sequence, node_id |-> o.node_id,
     position |-> o.position, backward |-> FALSE]

\* Index::batch_kmer, line 210: what one match adds to the batch.
batch_kmer(k) ==
    [sequence |-> k.sequence, node_id |-> k.node_id, position |-> k.position]

\* Lines 208-212: the batch built from a buffer.
WriteBatch(buf) == [i \in DOMAIN buf |-> batch_kmer(buf[i])]

\* write_buffer, lines 207-214: the whole buffer goes to the index as one
\* batch; the store then holds every key of the batch.
write_buffer(ix, buf) ==
    [ix EXCEPT !.kmers = @ \cup Range(WriteBatch(buf))]

\* A callback that leaves the buffer as it is after the inline write.
cache_kmer_unclearing(ix, buf, o) ==
    IF allATGC(o.sequence)
    THEN LET grown == Append(buf, KmerMatch(o)) IN
         IF Len(grown) > buffer_max_size
         THEN [index |-> write_buffer(ix, grown), buf |-> grown,
               written |-> <<WriteBatch(grown)>>, kept |-> TRUE]
         ELSE [index |-> ix, buf |-> grown, written |-> <<>>, kept |-> TRUE]
    ELSE [index |-> ix, buf |-> buf, written |-> <<>>, kept |-> FALSE]

\* A callback that writes only when the buffer has outgrown the threshold
\* by two.
cache_kmer_late(ix, buf, o) ==
    IF allATGC(o.sequence)
    THEN LET grown == Append(buf, KmerMatch(o)) IN
         IF Len(grown) > buffer_max_size + 1
         THEN [index |-> write_buffer(ix, grown), buf |-> <<>>,
               written |-> <<WriteBatch(grown)>>, kept |-> TRUE]
         ELSE [index |-> ix, buf |-> grown, written |-> <<>>, kept |-> TRUE]
    ELSE [index |-> ix, buf |-> buf, written |-> <<>>, kept |-> FALSE]

\* A callback that never writes during the enumeration.
cache_kmer_hoarding(ix, buf, o) ==
    IF allATGC(o.sequence)
    THEN [index |-> ix, buf |-> Append(buf, KmerMatch(o)),
          written |-> <<>>, kept |-> TRUE]
    ELSE [index |-> ix, buf |-> buf, written |-> <<>>, kept |-> FALSE]

\* cache_kmer, lines 216-231: the index and the thread's buffer after the
\* callback has run on occurrence o, the batch it wrote if it wrote one, and
\* whether it kept the occurrence.
cache_kmer(ix, buf, o) ==
    IF allATGC(o.sequence)
    THEN LET grown == Append(buf, KmerMatch(o)) IN
         IF Len(grown) > buffer_max_size
         THEN [index |-> write_buffer(ix, grown), buf |-> <<>>,
               written |-> <<WriteBatch(grown)>>, kept |-> TRUE]
         ELSE [index |-> ix, buf |-> grown, written |-> <<>>, kept |-> TRUE]
    ELSE [index |-> ix, buf |-> buf, written |-> <<>>, kept |-> FALSE]

\* Lines 191-204: the action starts on a loaded graph.
index_kmers_begin ==
    /\ pc = "apply"
    /\ op = "index_kmers"
    /\ buffer' = [t \in Threads |-> <<>>]
    /\ pushed' = [t \in Threads |-> <<>>]
    /\ pending' = KmerOccurrences(g.nodes)
    /\ flushed' = {}
    /\ batches' = {}
    /\ touches' = {}
    /\ events' = Append(events, Event("apply", idx, g))
    /\ pc' = "enumerate"
    /\ UNCHANGED <<faultVars, exportVars,
                   op, filenames, fs, stdin, idx, g, err, mergeVars, index,
                   xgVars>>

\* The threads are interchangeable, so the threads that have not pushed yet
\* are taken up in index order.
Schedulable ==
    {t \in Threads : \A u \in 0..(t - 1) : pushed[u] # <<>>}

Touch(b, w, how) == [buffer |-> b, worker |-> w, how |-> how]

\* A callback in which every worker uses the first buffer.
buffer_of_shared(worker) == 0

\* Lines 219-222: tid is omp_get_thread_num() and the buffer is buffer[tid].
buffer_of(worker) == worker

\* What a run of the callback on a worker does to the buffers.
callback_touches(worker, r) ==
    (IF r.kept THEN {Touch(buffer_of(worker), worker, "append")} ELSE {})
        \cup {Touch(buffer_of(worker), worker, "inline") : i \in DOMAIN r.written}

\* Line 236: some thread runs the callback on an occurrence not yet seen.
for_each_kmer_parallel ==
    /\ pc = "enumerate"
    /\ \E o \in pending, worker \in Schedulable :
          LET tid == buffer_of(worker)
              r == cache_kmer(index, buffer[tid], o) IN
          /\ pending' = pending \ {o}
          /\ touches' = touches \cup callback_touches(worker, r)
          /\ index' = r.index
          /\ buffer' = [buffer EXCEPT ![tid] = r.buf]
          /\ batches' = batches \cup
                 {[tid |-> tid, inline |-> TRUE, entries |-> r.written[i]] :
                     i \in DOMAIN r.written}
          /\ pushed' = IF r.kept
                       THEN [pushed EXCEPT ![tid] = Append(@, KmerMatch(o))]
                       ELSE pushed
    /\ UNCHANGED <<faultVars, exportVars,
                   iterVars, mergeVars, flushed, xgVars>>

\* The final write of buffer i, numbered among the final writes of that
\* buffer.  An iteration of the loop is run by one worker, whichever the
\* dynamic schedule gives it to.
FinalTouch(i) ==
    [buffer |-> i, how |-> "final",
     nth |-> 1 + Cardinality({t \in touches :
                                 t.how = "final" /\ t.buffer = i})]

\* Lines 240-245: one iteration of the final parallel loop.
final_flush ==
    /\ pc = "enumerate"
    /\ pending = {}
    /\ \E i \in Threads \ flushed :
          /\ index' = write_buffer(index, buffer[i])
          /\ touches' = touches \cup {FinalTouch(i)}
          /\ batches' = batches \cup
                 {[tid |-> i, inline |-> FALSE, entries |-> WriteBatch(buffer[i])]}
          /\ flushed' = flushed \cup {i}
    /\ UNCHANGED <<faultVars, exportVars,
                   iterVars, mergeVars, buffer, pending, pushed, xgVars>>

\* A flush loop that also records the k-mer length once a graph is done.
buffer_clear_remembering ==
    /\ pc = "enumerate"
    /\ pending = {}
    /\ flushed = Threads
    /\ buffer' = <<>>
    /\ index' = [index EXCEPT !.kmer_sizes = Append(@, KmerSize)]
    /\ touches' = {}
    /\ pc' = "delete"
    /\ UNCHANGED <<faultVars, exportVars,
                   op, filenames, fs, stdin, idx, g, err, events, mergeVars,
                   pending, flushed, pushed, batches, xgVars>>

\* An action that returns as soon as the enumeration is over, without
\* waiting for the final flush.
buffer_clear_early ==
    /\ pc = "enumerate"
    /\ pending = {}
    /\ buffer' = <<>>
    /\ touches' = {}
    /\ pc' = "delete"
    /\ UNCHANGED <<faultVars, exportVars,
                   op, filenames, fs, stdin, idx, g, err, events, mergeVars,
                   index, pending, flushed, pushed, batches, xgVars>>

\* Lines 246-247: the buffers go, the action returns.
buffer_clear ==
    /\ pc = "enumerate"
    /\ pending = {}
    /\ flushed = Threads
    /\ buffer' = <<>>
    /\ touches' = {}
    /\ pc' = "delete"
    /\ UNCHANGED <<faultVars, exportVars,
                   op, filenames, fs, stdin, idx, g, err, events, mergeVars,
                   index, pending, flushed, pushed, batches, xgVars>>

\* Line 250: after for_each has returned.
remember_kmer_size ==
    /\ pc = "load"
    /\ idx > Len(filenames)
    /\ op = "index_kmers"
    /\ index' = [index EXCEPT !.kmer_sizes = Append(@, KmerSize)]
    /\ pc' = "done"
    /\ UNCHANGED <<faultVars, exportVars,
                   op, filenames, fs, stdin, idx, g, err, events, mergeVars,
                   kmerVars, xgVars>>

SetNodes ==
    LET at(i) == IF filenames[i] = "-" THEN stdin.nodes
                 ELSE fs[filenames[i]].nodes
        sum[i \in 0..Len(filenames)] ==
            IF i = 0 THEN 0 ELSE sum[i - 1] + Cardinality(at(i))
    IN sum[Len(filenames)]

\* File names are interchangeable too: "b" is not named before "a".
NamedInOrder ==
    \A i \in DOMAIN filenames :
        filenames[i] = "b" => \E j \in 1..(i - 1) : filenames[j] = "a"

InitKmer ==
    /\ InitSet({"index_kmers"})
    /\ fs["-"] = Missing
    /\ stdin \in IF "-" \in Range(filenames) THEN Streams ELSE {Eof}
    /\ moved_from = "unchanged"
    /\ NamedInOrder
    /\ SetNodes <= MaxSetNodes

NextKmer ==
    \/ load
    \/ index_kmers_begin
    \/ for_each_kmer_parallel
    \/ final_flush
    \/ buffer_clear
    \/ delete_g
    \/ remember_kmer_size

SpecKmer == InitKmer /\ [][NextKmer]_vars

(***************************************************************************)
(* The operations over a set together: transform (merge_id_space) and      *)
(* for_each (store_in_index, index_kmers).                                 *)
(***************************************************************************)
InitSetOps == Init \/ InitKmer

NextSetOps == Next \/ NextKmer

SpecSetOps == InitSetOps /\ [][NextSetOps]_vars

(***************************************************************************)
(* The export writers, lines 263-329 and 396-411: for_each over the set    *)
(* with an action that has the graph's k-mer records enumerated in         *)
(* parallel; the callback writes each record and a newline to the output   *)
(* stream inside an OpenMP critical section.  A text is a sequence of      *)
(* characters.                                                             *)
(***************************************************************************)
ExportOps ==
    {"write_gcsa_out_old", "write_gcsa_out_handle",
     "write_gcsa_kmers_binary_handle"}

HandleOps == {"write_gcsa_out_handle", "write_gcsa_kmers_binary_handle"}

\* The identifiers the caller passes for the sentinel nodes.
head_id == MaxNodeId + 1
tail_id == MaxNodeId + 2

\* VG::add_start_end_markers (a collaborator): the graph gains a head and a
\* tail node.
add_start_end_markers(graph, head, tail) ==
    [graph EXCEPT !.nodes = @ \cup {head, tail}]

\* std::stringstream: the characters held and the put position.
NewStream == [buf |-> <<>>, p |-> 0]

put(ss, c) ==
    [buf |-> IF ss.p < Len(ss.buf) THEN [ss.buf EXCEPT ![ss.p + 1] = c]
             ELSE Append(ss.buf, c),
     p |-> ss.p + 1]

RECURSIVE puts(_, _)
puts(ss, text) ==
    IF text = <<>> THEN ss ELSE puts(put(ss, Head(text)), Tail(text))

\* line.seekp(-1, line.cur)
seekp_back(ss) == [ss EXCEPT !.p = @ - 1]

str(ss) == ss.buf

pop_back(text) == SubSeq(text, 1, Len(text) - 1)

\* std::set<char> and std::set<string> are iterated in ascending order.
CharOrder == <<"A", "C", "G", "T">>
PositionOrder == <<<<"2", ":", "0">>, <<"3", ":", "1">>>>

InOrder(S, order) == SelectSeq(order, LAMBDA x : x \in S)

\* for (auto c : chars) line << c << ',';
RECURSIVE put_each(_, _)
put_each(ss, items) ==
    IF items = <<>> THEN ss
    ELSE put_each(put(puts(ss, Head(items)), ","), Tail(items))

\* A column writer that leaves the comma after the last character.
close_column_keeping_comma(ss, empty, mark) ==
    IF ~empty THEN ss ELSE put(ss, mark)

\* Lines 278-279 and 283-284: the last comma is given up to the next
\* insertion, or the column is the mark.
close_column(ss, empty, mark) ==
    IF ~empty THEN seekp_back(ss) ELSE put(ss, mark)

\* write_kmer of write_gcsa_out_old, lines 270-294: the record of one
\* KmerPosition.
write_kmer(kp, start_id) ==
    LET c12 == puts(puts(puts(puts(NewStream, kp.kmer), <<"\t">>), kp.pos), <<"\t">>)
        prev == put_each(c12, [i \in DOMAIN InOrder(kp.prev_chars, CharOrder) |->
                                  <<InOrder(kp.prev_chars, CharOrder)[i]>>])
        c3 == put(close_column(prev, kp.prev_chars = {}, "$"), "\t")
        next == put_each(c3, [i \in DOMAIN InOrder(kp.next_chars, CharOrder) |->
                                 <<InOrder(kp.next_chars, CharOrder)[i]>>])
        c4 == put(close_column(next, kp.next_chars = {}, "#"), "\t")
        line == put_each(c4, InOrder(kp.next_positions, PositionOrder))
    IN IF kp.next_positions = {}
       THEN str(puts(line, <<ToString(start_id), ":", "0">>))
       ELSE pop_back(str(line))

\* The identifier write_gcsa_out_old is given for the start node.
start_id == MaxNodeId + 1

\* operator<< of kmer_t (a collaborator): the text of one record.
kmer_text(kp) == <<"k", ToString(kp.node)>>

\* for_each_kmer (a collaborator): the records of a graph, one per node,
\* each delivered once to the callback on some worker.
for_each_kmer(graph) == {[node |-> n] : n \in graph.nodes}

\* VG::for_each_gcsa_kmer_position_parallel (a collaborator): the
\* KmerPositions of a graph, each delivered once to the callback.
KmerPositionAt(n) ==
    [kmer |-> SubSeq(NodeSeq(n), 1, KmerSize),
     pos |-> <<ToString(n), ":", "0">>,
     prev_chars |-> {},
     next_chars |-> {NodeSeq(n)[i] : i \in {KmerSize + 1} \cap DOMAIN NodeSeq(n)},
     next_positions |-> {}]

for_each_gcsa_kmer_position_parallel(graph) ==
    {KmerPositionAt(n) : n \in graph.nodes}

Idle == [at |-> "idle", kp |-> <<>>, rec |-> <<>>]

endl == <<"\n">>

\* What the callback of the running operation writes for a record.
record_text(kp) ==
    IF op = "write_gcsa_out_old" THEN write_kmer(kp, start_id)
    ELSE kmer_text(kp)

\* An action of the handle writers that also serializes the graph with its
\* sentinel nodes over the file.
add_markers_written ==
    /\ pc = "apply"
    /\ op \in HandleOps
    /\ g' = add_start_end_markers(g, head_id, tail_id)
    /\ fs' = serialize_to_ostream(fs, filenames[idx], g')
    /\ kps' = for_each_kmer(g')
    /\ writers' = [w \in Threads |-> Idle]
    /\ cout' = <<>>
    /\ events' = Append(events, Event("apply", idx, g'))
    /\ pc' = "emit"
    /\ UNCHANGED <<faultVars, op, filenames, stdin, idx, err, mergeVars,
                   index, kmerVars, xgVars>>

\* Lines 322-327 and 405-409: the action of the handle writers puts the
\* sentinel nodes into the loaded graph and starts the enumeration.
add_markers ==
    /\ pc = "apply"
    /\ op \in HandleOps
    /\ g' = add_start_end_markers(g, head_id, tail_id)
    /\ kps' = for_each_kmer(g')
    /\ writers' = [w \in Threads |-> Idle]
    /\ cout' = <<>>
    /\ events' = Append(events, Event("apply", idx, g'))
    /\ pc' = "emit"
    /\ UNCHANGED <<faultVars, op, filenames, fs, stdin, idx, err, mergeVars,
                   index, kmerVars, xgVars>>

\* Lines 302-306 and 338-345: the action of write_gcsa_out_old starts the
\* enumeration of the loaded graph.
positions_begin ==
    /\ pc = "apply"
    /\ op = "write_gcsa_out_old"
    /\ kps' = for_each_gcsa_kmer_position_parallel(g)
    /\ writers' = [w \in Threads |-> Idle]
    /\ cout' = <<>>
    /\ events' = Append(events, Event("apply", idx, g))
    /\ pc' = "emit"
    /\ UNCHANGED <<faultVars, op, filenames, fs, stdin, idx, g, err,
                   mergeVars, index, kmerVars, xgVars>>

\* The workers that have nothing to do are interchangeable: the next record
\* goes to the first of them.
FreeWorker ==
    {w \in Threads : /\ writers[w].at = "idle"
                     /\ \A v \in 0..(w - 1) : writers[v].at # "idle"}

\* The callback starts on a worker: up to the critical section (for
\* write_gcsa_out_old that is lines 272-294, the record is built).
callback_enter ==
    /\ pc = "emit"
    /\ \E kp \in kps, w \in FreeWorker :
          /\ kps' = kps \ {kp}
          /\ writers' = [writers EXCEPT
                            ![w] = [at |-> "wait", kp |-> kp,
                                    rec |-> record_text(kp)]]
    /\ UNCHANGED <<faultVars, iterVars, mergeVars, index, kmerVars, xgVars,
                   cout>>

\* A worker that does not wait for the critical section.
critical_rec_unguarded ==
    /\ pc = "emit"
    /\ \E w \in Threads :
          /\ writers[w].at = "wait"
          /\ cout' = Append(cout, [by |-> w, text |-> writers[w].rec])
          /\ writers' = [writers EXCEPT ![w].at = "endl"]
    /\ UNCHANGED <<faultVars, iterVars, mergeVars, index, kmerVars, xgVars,
                   kps>>

\* Lines 295-297, 318-319, 402-403: the worker enters the critical section,
\* which no other worker is in, and inserts the record.
critical_rec ==
    /\ pc = "emit"
    /\ \E w \in Threads :
          /\ writers[w].at = "wait"
          /\ \A v \in Threads : writers[v].at # "endl"
          /\ cout' = Append(cout, [by |-> w, text |-> writers[w].rec])
          /\ writers' = [writers EXCEPT ![w].at = "endl"]
    /\ UNCHANGED <<faultVars, iterVars, mergeVars, index, kmerVars, xgVars,
                   kps>>

\* The worker inserts endl and leaves the critical section.
critical_endl ==
    /\ pc = "emit"
    /\ \E w \in Threads :
          /\ writers[w].at = "endl"
          /\ cout' = Append(cout, [by |-> w, text |-> endl])
          /\ writers' = [writers EXCEPT ![w] = Idle]
    /\ UNCHANGED <<faultVars, iterVars, mergeVars, index, kmerVars, xgVars,
                   kps>>

\* The enumeration is over and the action returns.
export_end ==
    /\ pc = "emit"
    /\ kps = {}
    /\ \A w \in Threads : writers[w].at = "idle"
    /\ cout' = <<>>
    /\ pc' = "delete"
    /\ UNCHANGED <<faultVars, writers, kps, op, filenames, fs, stdin, idx, g,
                   err, events, mergeVars, index, kmerVars, xgVars>>

\* for_each has returned, and so does the writer.
export_done ==
    /\ pc = "load"
    /\ idx > Len(filenames)
    /\ op \in ExportOps
    /\ pc' = "done"
    /\ UNCHANGED <<faultVars, exportVars, op, filenames, fs, stdin, idx, g,
                   err, events, mergeVars, index, kmerVars, xgVars>>

Again == [ev |-> "again", pos |-> 0, nodes |-> {}]

\* The caller runs the same writer over the same set once more.
run_again ==
    /\ pc = "done"
    /\ op \in ExportOps
    /\ Again \notin Range(events)
    /\ events' = Append(events, Again)
    /\ idx' = 1
    /\ pc' = "load"
    /\ UNCHANGED <<faultVars, exportVars, op, filenames, fs, stdin, g, err,
                   mergeVars, index, kmerVars, xgVars>>

\* A writer treats the files of the list alike and one after the other, so
\* the lists of the model name the files in one order, standard input last.
ExportFileLists ==
    {SubSeq(<<"a", "b", "-">>, 1, n) : n \in {m \in 0..3 : m <= MaxFiles}}

InitExport ==
    /\ InitSet(ExportOps)
    /\ filenames \in ExportFileLists
    /\ fs["-"] = Missing
    /\ stdin \in IF "-" \in Range(filenames) THEN Streams ELSE {Eof}
    /\ moved_from = "unchanged"
    /\ SetNodes <= MaxSetNodes

NextExport ==
    \/ load
    \/ add_markers
    \/ positions_begin
    \/ callback_enter
    \/ critical_rec
    \/ critical_endl
    \/ export_end
    \/ delete_g
    \/ export_done
    \/ run_again

SpecExport == InitExport /\ [][NextExport]_vars

(***************************************************************************)
(* write_kmer of write_gcsa_out_old on any KmerPosition: the enumeration   *)
(* of the one graph of the set is about to hand the callback a position.   *)
(***************************************************************************)
KmerPositions ==
    [kmer : {<<"A", "C">>},
     pos : {<<"1", ":", "0">>},
     prev_chars : SUBSET Range(CharOrder),
     next_chars : SUBSET Range(CharOrder),
     next_positions : SUBSET Range(PositionOrder)]

InitText ==
    /\ InitSet({"write_gcsa_out_old"})
    /\ filenames = <<"a">>
    /\ fs["a"] \in Files
    /\ stdin = Eof
    /\ moved_from = "unchanged"

\* Lines 302-306 with an enumeration that yields one KmerPosition, whichever.
positions_begin_any ==
    /\ pc = "apply"
    /\ op = "write_gcsa_out_old"
    /\ \E kp \in KmerPositions : kps' = {kp}
    /\ writers' = [w \in Threads |-> Idle]
    /\ cout' = <<>>
    /\ events' = Append(events, Event("apply", idx, g))
    /\ pc' = "emit"
    /\ UNCHANGED <<faultVars, op, filenames, fs, stdin, idx, g, err,
                   mergeVars, index, kmerVars, xgVars>>

NextText ==
    \/ load
    \/ positions_begin_any
    \/ callback_enter
    \/ critical_rec
    \/ critical_endl
    \/ export_end
    \/ delete_g
    \/ export_done

SpecText == InitText /\ [][NextText]_vars

(***************************************************************************)
(* Writes that fail.  The ofstream of lines 23-25 is never tested and the  *)
(* rocksdb::Status of line 213 is never read, so the operation goes on     *)
(* from a failed write as from a successful one.  The model follows the    *)
(* operation from the first write that fails.                              *)
(***************************************************************************)
Failure(what) == [what |-> what, pos |-> idx]

\* Lines 23-25 when the file cannot be opened for writing: the stream is in
\* a failed state, the insertions do nothing, the file is as it was.
write_back_failed ==
    /\ pc = "write"
    /\ failures = {}
    /\ failures' = {Failure("write_back")}
    /\ pc' = "delete"
    /\ UNCHANGED <<exportVars, op, filenames, fs, stdin, idx, g, err, events,
                   mergeVars, index, kmerVars, xgVars>>

\* write_buffer, lines 207-214, when db->Write returns a Status that is not
\* ok: the store has none of the batch.
write_buffer_failed(ix, buf) == ix

\* Line 236 when the inline write of line 227 fails: the buffer is cleared
\* all the same (line 228).
for_each_kmer_parallel_failed ==
    /\ pc = "enumerate"
    /\ failures = {}
    /\ \E o \in pending, tid \in Schedulable :
          LET r == cache_kmer(index, buffer[tid], o) IN
          /\ r.written # <<>>
          /\ pending' = pending \ {o}
          /\ index' = write_buffer_failed(index, Append(buffer[tid], KmerMatch(o)))
          /\ touches' = touches \cup callback_touches(tid, r)
          /\ buffer' = [buffer EXCEPT ![tid] = r.buf]
          /\ pushed' = [pushed EXCEPT ![tid] = Append(@, KmerMatch(o))]
    /\ failures' = {Failure("inline_batch")}
    /\ UNCHANGED <<exportVars, iterVars, mergeVars, flushed, batches, xgVars>>

\* Lines 240-245 when the write of one iteration fails.
final_flush_failed ==
    /\ pc = "enumerate"
    /\ pending = {}
    /\ failures = {}
    /\ \E i \in Threads \ flushed :
          /\ index' = write_buffer_failed(index, buffer[i])
          /\ touches' = touches \cup {FinalTouch(i)}
          /\ flushed' = flushed \cup {i}
    /\ failures' = {Failure("final_batch")}
    /\ UNCHANGED <<exportVars, iterVars, mergeVars, buffer, pending, pushed,
                   batches, xgVars>>

InitFaulty == Init \/ InitKmer

NextFaulty ==
    \/ Next
    \/ NextKmer
    \/ write_back_failed
    \/ for_each_kmer_parallel_failed
    \/ final_flush_failed

SpecFaulty == InitFaulty /\ [][NextFaulty]_vars

(***************************************************************************)
(* VGset::to_xg, lines 66-168: every file is decoded chunk by chunk; the   *)
(* paths whose name matches paths_to_take are taken out of the chunk and   *)
(* their mappings filed by rank, the rest of the chunk goes on to the XG   *)
(* builder; after each file the filed mappings are rebuilt into Paths.     *)
(***************************************************************************)
\* paths_to_take, as the set of the path names it matches; the paths of the
\* model are named "x", which matches, or "k", which does not.
paths_to_take == {"x"}

regex_match(name, re) == name \in re

Ranks == 0..2

\* A default-constructed Mapping.
DefaultMapping == [rank |-> 0, node |-> 0]

\* A moved-from protobuf message is left as it was by a build whose
\* messages have no move assignment (the move is a copy), and left
\* default-constructed by a build whose move assignment swaps.
MovedFrom == {"unchanged", "default"}

moved(message, blank) == IF moved_from = "default" THEN blank ELSE message

\* The chunks the model decodes: up to two paths, a matching path with no
\* mapping or with one of any rank, another path with one mapping.
PathShapes ==
    [name : paths_to_take, ranks : SeqsUpTo(Ranks, 1)]
        \cup [name : {"k"}, ranks : {<<1>>}]

ChunkShapes == SeqsUpTo(PathShapes, 2)

RECURSIVE Mappings(_)
Mappings(paths) ==
    IF paths = <<>> THEN 0
    ELSE Len(Head(paths).ranks) + Mappings(Tail(paths))

TakenMappings(shape) ==
    Mappings(SelectSeq(shape, LAMBDA q : q.name \in paths_to_take))

\* stream::for_each (a collaborator) decodes the next Graph message.  Every
\* mapping of a matching path carries a content of its own (node), numbered
\* on from base; the mapping of another path carries its path's position.
Decode(shape, base) ==
    [path |-> [p \in DOMAIN shape |->
        [name |-> shape[p].name,
         mapping |-> [j \in DOMAIN shape[p].ranks |->
            [rank |-> shape[p].ranks[j],
             node |-> IF shape[p].name \in paths_to_take
                      THEN base + TakenMappings(SubSeq(shape, 1, p - 1)) + j
                      ELSE p]]]]]

\* Lines 89-107.
paths_taken(graph) ==
    SelectSeq(graph.path, LAMBDA q : regex_match(q.name, paths_to_take))

paths_kept(graph) ==
    SelectSeq(graph.path, LAMBDA q : ~regex_match(q.name, paths_to_take))

\* Lines 119-120: the mappings of the taken paths, in the order of the loops.
RECURSIVE TakenItems(_)
TakenItems(paths) ==
    IF paths = <<>> THEN <<>>
    ELSE [j \in DOMAIN Head(paths).mapping |->
             [name |-> Head(paths).name, mapping |-> Head(paths).mapping[j]]]
         \o TakenItems(Tail(paths))

Entry_of(table, name) == IF name \in DOMAIN table THEN table[name] ELSE <<>>

\* A rank synthesis that counts the mappings filed instead of reading the
\* largest rank.
synthesized_rank_by_size(entry) == Cardinality(DOMAIN entry) + 1

\* Lines 127-134: the rank given to a mapping that has none.
synthesized_rank(entry) ==
    IF DOMAIN entry # {} THEN Max(DOMAIN entry) + 1 ELSE 1

\* Lines 124-138, for one mapping: st is the table and the log of filings.
file_mapping(st, item, file) ==
    LET entry == Entry_of(st.table, item.name)
        rank == IF item.mapping.rank = 0 THEN synthesized_rank(entry)
                ELSE item.mapping.rank
        ranked == [item.mapping EXCEPT !.rank = rank]
    IN [table |-> (item.name :> ((rank :> ranked) @@ entry)) @@ st.table,
        log |-> Append(st.log,
                   [name |-> item.name, node |-> item.mapping.node,
                    given |-> item.mapping.rank, rank |-> rank, file |-> file])]

RECURSIVE file_mappings(_, _, _)
file_mappings(st, items, file) ==
    IF items = <<>> THEN st
    ELSE file_mappings(file_mapping(st, Head(items), file), Tail(items), file)

RECURSIVE Ascending(_)
Ascending(S) ==
    IF S = {} THEN <<>>
    ELSE LET m == CHOOSE x \in S : \A y \in S : x <= y
         IN <<m>> \o Ascending(S \ {m})

\* Lines 150-157: the Path rebuilt from one entry of the table.
rebuilt_path(name, entry) ==
    LET order == Ascending(DOMAIN entry)
    IN [name |-> name, mapping |-> [i \in DOMAIN order |-> entry[order[i]]]]

\* Lines 73-81: the next file is opened ("-" is a file name like any other
\* here).
xg_open ==
    /\ pc = "load"
    /\ op = "to_xg"
    /\ idx <= Len(filenames)
    /\ IF fs[filenames[idx]].exists
       THEN pc' = "stream" /\ err' = err
       ELSE pc' = "failed" /\ err' = load_failure(filenames[idx])
    /\ UNCHANGED <<faultVars, exportVars,
                   op, filenames, fs, stdin, idx, g, events, mergeVars, index,
                   kmerVars, xgVars>>

\* handle_graph, lines 83-144, on the next chunk of the file.
handle_graph ==
    /\ pc = "stream"
    /\ \E shape \in ChunkShapes :
          /\ Len(filed) + TakenMappings(shape) <= MaxMappings
          /\ LET graph == Decode(shape, Len(filed))
                 taken == paths_taken(graph)
                 st == file_mappings([table |-> mappings, log |-> filed],
                                     TakenItems(taken), idx)
             IN /\ chunk_in' = graph
                /\ forwarded' = [graph EXCEPT !.path = paths_kept(graph)]
                /\ mappings' = st.table
                /\ filed' = st.log
                /\ seen' = seen \cup {taken[i].name : i \in DOMAIN taken}
    /\ UNCHANGED <<faultVars, exportVars,
                   iterVars, mergeVars, index, kmerVars, moved_from,
                   removed_paths>>

\* Lines 146-166: the stream is at its end; every entry of the table is
\* moved into a Path, which replaces the one returned under that name.
reassemble ==
    /\ pc = "stream"
    /\ removed_paths' =
           [n \in DOMAIN mappings |-> rebuilt_path(n, mappings[n])]
               @@ removed_paths
    /\ mappings' = [n \in DOMAIN mappings |->
                       [r \in DOMAIN mappings[n] |->
                           moved(mappings[n][r], DefaultMapping)]]
    /\ chunk_in' = NoChunk
    /\ forwarded' = NoChunk
    /\ idx' = idx + 1
    /\ pc' = "load"
    /\ UNCHANGED <<faultVars, exportVars,
                   op, filenames, fs, stdin, g, err, events, mergeVars, index,
                   kmerVars, moved_from, filed, seen>>

\* Line 167: the file loop is over and from_callback returns.
xg_done ==
    /\ pc = "load"
    /\ op = "to_xg"
    /\ idx > Len(filenames)
    /\ pc' = "done"
    /\ UNCHANGED <<faultVars, exportVars,
                   op, filenames, fs, stdin, idx, g, err, events, mergeVars,
                   index, kmerVars, xgVars>>

\* The files of to_xg are read as chunk streams: of the disk only which
\* names can be opened matters.  The chunks of a file are drawn when it is
\* read, so no file is listed twice; and to_xg treats every name alike, so
\* the names are listed in one order.
XGFileLists ==
    {SubSeq(<<"a", "b", "-">>, 1, n) : n \in {m \in 0..3 : m <= MaxFiles}}

InitXG ==
    /\ InitSet({"to_xg"})
    /\ filenames \in XGFileLists
    /\ stdin = Eof
    /\ \A n \in FileNames : fs[n].nodes = {}
    /\ moved_from \in MovedFrom

NextXG ==
    \/ xg_open
    \/ handle_graph
    \/ reassemble
    \/ xg_done

SpecXG == InitXG /\ [][NextXG]_vars

(***************************************************************************)
(* Properties of the traversals and of merge_id_space.                     *)
(***************************************************************************)
NodesAt(i) == fs[filenames[i]].nodes

MergeDone == op = "merge_id_space" /\ pc = "done"

NoRepeats ==
    \A i, j \in DOMAIN filenames : i # j => filenames[i] # filenames[j]

Increasing(i) == \A a \in NodesAt(i), b \in NodesAt(i + 1) : a < b

\* C1 as stated: after merge_id_space, for every file list, every identifier
\* of file i+1 exceeds every identifier of file i.
C1_SuccessiveRangesIncrease_AnyList ==
    MergeDone => \A i \in 1..(Len(filenames) - 1) : Increasing(i)

\* C1, amended: after merge_id_space over a file list that names no file
\* twice, every identifier of file i+1 exceeds every identifier of file i
\* (so the two ranges are disjoint and the minimum of file i+1 exceeds the
\* maximum of file i).
C1_SuccessiveRangesIncrease ==
    (MergeDone /\ NoRepeats)
        => \A i \in 1..(Len(filenames) - 1) : Increasing(i)

\* Three distinct files with nodes, the later ones shifted by the merge.
C1_Witness ==
    /\ MergeDone
    /\ NoRepeats
    /\ Len(filenames) = 3
    /\ \A i \in 1..3 : NodesAt(i) # {}
    /\ \E e \in Range(events) : e.ev = "load" /\ e.pos = 3 /\ e.nodes # NodesAt(3)

\* C2: after merge_id_space no identifier occurs in two different files,
\* whatever the graphs' sizes (graphs with no node included).
C2_GloballyUnique ==
    MergeDone
        => \A i, j \in DOMAIN filenames :
               filenames[i] # filenames[j] => NodesAt(i) \cap NodesAt(j) = {}

ApplyAt(k) == CHOOSE e \in Range(events) : e.ev = "apply" /\ e.pos = k

LastVisit(i) == Max({k \in 1..(idx - 1) : filenames[k] = filenames[i]})

\* C10: a failed open of the file at position idx throws a failure naming
\* that path and ends the operation: no step has been taken for that
\* position or a later one, nothing more happens, no unopenable file is ever
\* passed over, and in the mutating traversal every file visited before
\* holds the graph its action left.
C10_FailedOpenAborts ==
    /\ \A i \in DOMAIN filenames :
           (i < idx /\ filenames[i] # "-") => fs[filenames[i]].exists
    /\ pc = "failed"
         => /\ idx \in DOMAIN filenames
            /\ ~fs[filenames[idx]].exists
            /\ err = "failed to open " \o filenames[idx]
            /\ \A e \in Range(events) : e.pos < idx
            /\ ~ENABLED Next
            /\ Mutating
                 => \A i \in 1..(idx - 1) :
                        /\ fs[filenames[i]].exists
                        /\ fs[filenames[i]].nodes = ApplyAt(LastVisit(i)).nodes

\* The third open fails after two files were rewritten, one with shifted
\* identifiers.
C10_Witness ==
    /\ pc = "failed"
    /\ Mutating
    /\ idx = 3
    /\ \E e \in Range(events) :
           e.ev = "load" /\ e.pos = 2 /\ e.nodes # NodesAt(2) /\ e.nodes # {}

AllNodes == UNION {NodesAt(i) : i \in DOMAIN filenames}

\* C16 as stated: merge_id_space returns the largest node identifier held by
\* any file of the set after the merge (0 when no file holds a node), for
\* every file list.
C16_ReturnsFinalMaximum ==
    MergeDone => ret = IF AllNodes = {} THEN 0 ELSE Max(AllNodes)

\* What decoding the source of reference i would give now.
SourceAt(i) == IF filenames[i] = "-" THEN stdin.nodes ELSE NodesAt(i)

EventsAt(e, i) == {k \in DOMAIN events : events[k].ev = e /\ events[k].pos = i}

LoadedAt(i) == events[CHOOSE k \in EventsAt("load", i) : TRUE].nodes

\* C17 as stated: transform writes the graph of every reference it loaded
\* back exactly once, as the action left it, to the source it was loaded
\* from, standard input included; and after a run with an action that
\* changes nothing every source decodes to what it decoded to before.
C17_WriteBackToSource ==
    op = "transform" =>
        /\ \A i \in 1..(idx - 1) :
               /\ Cardinality(EventsAt("write", i)) = 1
               /\ \A k \in EventsAt("write", i) :
                      events[k].nodes = ApplyAt(i).nodes
        /\ (events # <<>> /\ events[Len(events)].ev = "write")
               => SourceAt(idx) = g.nodes
        /\ pc = "done" => \A i \in DOMAIN filenames : SourceAt(i) = LoadedAt(i)

(***************************************************************************)
(* Properties of the file loop.                                            *)
(***************************************************************************)
\* The step that may follow step e of the loop.
Follows(e, f) ==
    CASE e.ev = "load" -> f.ev = "apply" /\ f.pos = e.pos
      [] e.ev = "apply" ->
            f.ev = (IF Mutating THEN "write" ELSE "delete") /\ f.pos = e.pos
      [] e.ev = "write" -> f.ev = "delete" /\ f.pos = e.pos
      [] OTHER -> f.ev = "load" /\ f.pos = e.pos + 1

Released == events = <<>> \/ events[Len(events)].ev = "delete"

\* C13: the steps of the loop come file by file in list order, as load,
\* apply, write back (transform only), release; a graph is loaded exactly
\* from its load to its release, so never two at a time; and in index_kmers
\* the enumeration and the final flush of a graph are over when the graph
\* is released, so before the next one is loaded.
C13_OneGraphAtATime ==
    /\ events # <<>> => events[1].ev = "load" /\ events[1].pos = 1
    /\ \A k \in 1..(Len(events) - 1) : Follows(events[k], events[k + 1])
    /\ g.live <=> ~Released
    /\ (op = "index_kmers" /\ events # <<>> /\ Released)
           => pending = {} /\ flushed = Threads

\* index_kmers is enumerating its second graph after it has written k-mers
\* of the first.
C13_Witness ==
    /\ op = "index_kmers"
    /\ pc = "enumerate"
    /\ idx = 2
    /\ index.kmers # {}
    /\ pending # {}
    /\ Len(events) = 5

(***************************************************************************)
(* Properties of the export writers.                                       *)
(***************************************************************************)
Loads(from, to) ==
    LET evs == SubSeq(events, from, to)
    IN SelectSeq(evs, LAMBDA e : e.ev = "load")

AgainAt == CHOOSE k \in DOMAIN events : events[k] = Again

FirstRun == Loads(1, AgainAt - 1)

SecondRun == Loads(AgainAt + 1, Len(events))

RanTwice == op \in ExportOps /\ pc = "done" /\ Again \in Range(events)

FilesKept == [][(op \in ExportOps) => (fs' = fs)]_vars

\* C12 as stated: a read-only traversal changes no file, whatever its
\* action does to the loaded graph, and a second run over the same list
\* decodes the graphs the first run decoded, for every file list.
C12_ReadOnlyTwice_AnyList ==
    FilesKept /\ [](RanTwice => SecondRun = FirstRun)

\* C12: a read-only traversal changes no file, whatever its action does to
\* the loaded graph, and a second run over a list that does not name
\* standard input decodes the graphs the first run decoded.
C12_ReadOnlyTwice ==
    FilesKept /\ []((RanTwice /\ "-" \notin Range(filenames))
                       => SecondRun = FirstRun)

\* A handle writer has run twice over two files that hold nodes; both times
\* the graphs got their sentinel nodes.
C12_Witness ==
    /\ RanTwice
    /\ op \in HandleOps
    /\ "-" \notin Range(filenames)
    /\ Len(FirstRun) = 2
    /\ \A i \in 1..2 : FirstRun[i].nodes # {}
    /\ Cardinality({k \in DOMAIN events :
                       events[k].ev = "apply" /\ head_id \in events[k].nodes}) = 4

\* C14: what the workers insert into the output stream comes in pairs, a
\* record and then the newline of the same worker, with nothing of another
\* worker in between; a record whose newline is still to come is the last
\* insertion, and its worker is in the critical section.
C14_RecordsContiguous ==
    \A k \in DOMAIN cout :
        IF k % 2 = 1
        THEN /\ cout[k].text # endl
             /\ k < Len(cout) => cout[k + 1] = [by |-> cout[k].by, text |-> endl]
             /\ k = Len(cout) => writers[cout[k].by].at = "endl"
        ELSE cout[k].text = endl

\* Two workers had a record each to write; the worker that took its record
\* second has written first, and the other is in the critical section.
C14_Witness ==
    /\ pc = "emit"
    /\ Len(cout) = 3
    /\ cout[1].by = 1
    /\ cout[3].by = 0
    /\ cout[3].text # cout[1].text

RECURSIVE Split(_, _)
Split(text, sep) ==
    IF \A i \in DOMAIN text : text[i] # sep THEN <<text>>
    ELSE LET at == CHOOSE i \in DOMAIN text :
                      text[i] = sep /\ \A j \in 1..(i - 1) : text[j] # sep
         IN <<SubSeq(text, 1, at - 1)>>
                \o Split(SubSeq(text, at + 1, Len(text)), sep)

RECURSIVE Join(_, _)
Join(items, sep) ==
    IF items = <<>> THEN <<>>
    ELSE IF Len(items) = 1 THEN items[1]
    ELSE items[1] \o <<sep>> \o Join(Tail(items), sep)

Chars(S) ==
    LET cs == InOrder(S, CharOrder) IN [i \in DOMAIN cs |-> <<cs[i]>>]

WellFormed(rec, kp) ==
    LET col == Split(rec, "\t") IN
    /\ Len(col) = 5
    /\ col[1] = kp.kmer
    /\ col[2] = kp.pos
    /\ col[3] = IF kp.prev_chars = {} THEN <<"$">>
                ELSE Join(Chars(kp.prev_chars), ",")
    /\ col[4] = IF kp.next_chars = {} THEN <<"#">>
                ELSE Join(Chars(kp.next_chars), ",")
    /\ col[5] = IF kp.next_positions = {}
                THEN <<ToString(start_id), ":", "0">>
                ELSE Join(InOrder(kp.next_positions, PositionOrder), ",")

Writing(w) == pc = "emit" /\ writers[w].at \in {"wait", "endl"}

\* C15: the record write_gcsa_out_old builds for a KmerPosition has five
\* columns separated by TAB: the k-mer; the position; the preceding
\* characters joined by commas, or $ when there are none; the following
\* characters joined by commas, or # when there are none; the next
\* positions joined by commas, or start_id:0 when there are none; no column
\* ends in a comma; and this record is what the worker inserts.
C15_TextRecord ==
    op = "write_gcsa_out_old" =>
        \A w \in Threads :
            Writing(w) =>
                /\ WellFormed(writers[w].rec, writers[w].kp)
                /\ writers[w].at = "endl"
                       => cout[Len(cout)].text = writers[w].rec

\* The record of a position with two preceding characters, two following
\* characters and two next positions has been inserted.
C15_Witness ==
    /\ op = "write_gcsa_out_old"
    /\ \E w \in Threads :
          /\ Writing(w)
          /\ writers[w].at = "endl"
          /\ writers[w].kp.prev_chars = {"A", "C"}
          /\ writers[w].kp.next_chars = {"G", "T"}
          /\ Cardinality(writers[w].kp.next_positions) = 2
          /\ cout[Len(cout)].text =
                 <<"A", "C", "\t", "1", ":", "0", "\t", "A", ",", "C", "\t",
                   "G", ",", "T", "\t", "2", ":", "0", ",", "3", ":", "1">>

(***************************************************************************)
(* Properties of failing writes.                                           *)
(***************************************************************************)
\* C11 as stated: once a write has failed (a batch in index_kmers, the
\* write-back in transform), no later batch reaches the index, no later
\* file is loaded or written, and the k-mer length is not recorded.
C11_FailureHalts ==
    [][failures # {} =>
          /\ index' = index
          /\ fs' = fs
          /\ ~(pc = "load" /\ pc' = "apply")]_vars

(***************************************************************************)
(* Properties of to_xg.                                                    *)
(***************************************************************************)
XGDone == op = "to_xg" /\ pc = "done"

FiledFor(n) == SelectSeq(filed, LAMBDA f : f.name = n)

Taken == {filed[j].name : j \in DOMAIN filed}

Record(n) ==
    IF n \in DOMAIN removed_paths THEN removed_paths[n].mapping ELSE <<>>

\* The chunk handed on holds the paths of the chunk decoded that do not
\* match, in their order, and nothing else.
ForwardedIsTheRest ==
    /\ \A p \in DOMAIN forwarded.path :
           ~regex_match(forwarded.path[p].name, paths_to_take)
    /\ \E pos \in [DOMAIN forwarded.path -> DOMAIN chunk_in.path] :
           /\ \A p, q \in DOMAIN pos : p < q => pos[p] < pos[q]
           /\ \A p \in DOMAIN pos : forwarded.path[p] = chunk_in.path[pos[p]]
           /\ \A c \in DOMAIN chunk_in.path :
                  ~regex_match(chunk_in.path[c].name, paths_to_take)
                      => \E p \in DOMAIN pos : pos[p] = c

StrictlyAscending(record) ==
    \A i, j \in DOMAIN record : i < j => record[i].rank < record[j].rank

\* C3 as stated: every chunk forwarded holds exactly the non-matching paths
\* of the chunk decoded, in their order; and when to_xg has returned, the
\* map returned has exactly the names of the matching paths decoded, each
\* record with its mappings in strictly ascending rank.
C3_SplitAndReturn ==
    /\ ForwardedIsTheRest
    /\ XGDone =>
          /\ DOMAIN removed_paths = seen
          /\ \A n \in DOMAIN removed_paths : StrictlyAscending(Record(n))

EarlierRanks(j) ==
    {filed[i].rank : i \in {h \in 1..(j - 1) : filed[h].name = filed[j].name}}

\* C4: a mapping decoded without a rank is filed under rank 1 when nothing
\* was filed for its path before it, and under the largest rank filed for
\* its path so far plus one otherwise; the table holds a mapping under
\* exactly the ranks filed; so the mappings of a path that all came without
\* a rank are filed under 1, 2, 3, ... in the order they came.
C4_RankSynthesis ==
    /\ \A j \in DOMAIN filed :
           filed[j].given = 0 =>
               filed[j].rank = IF EarlierRanks(j) = {} THEN 1
                               ELSE Max(EarlierRanks(j)) + 1
    /\ \A n \in Taken :
           /\ n \in DOMAIN mappings
           /\ DOMAIN mappings[n] = {f.rank : f \in Range(FiledFor(n))}
           /\ (\A f \in Range(FiledFor(n)) : f.given = 0)
                  => \A k \in DOMAIN FiledFor(n) : FiledFor(n)[k].rank = k

\* Three mappings without a rank have come for one path, in chunks of three
\* files, and were filed under 1, 2 and 3.
C4_Witness ==
    /\ op = "to_xg"
    /\ Len(filed) = 3
    /\ \A j \in 1..3 :
           /\ filed[j].name = "x"
           /\ filed[j].given = 0
           /\ filed[j].rank = j
           /\ filed[j].file = j

Contributors(n) == {f.file : f \in Range(FiledFor(n))}

Overwritten(j) ==
    \E k \in (j + 1)..Len(filed) :
        filed[k].name = filed[j].name /\ filed[k].rank = filed[j].rank

Holds(record, f) ==
    \E i \in DOMAIN record : record[i].node = f.node /\ record[i].rank = f.rank

AccumulatedAcrossFiles ==
    XGDone =>
        \A j \in DOMAIN filed :
            (Cardinality(Contributors(filed[j].name)) > 1 /\ ~Overwritten(j))
                => Holds(Record(filed[j].name), filed[j])

UntouchedByOtherFiles ==
    (pc = "stream" /\ pc' = "load") =>
        \A n \in DOMAIN removed_paths :
            idx \notin Contributors(n) => removed_paths'[n] = removed_paths[n]

\* C5 as stated: when to_xg has returned, the record of a name that came in
\* chunks of several files holds the mappings every one of these files
\* brought, content included; and reading a file that brings nothing for a
\* name leaves the record of that name as it was after the file before.
C5_CrossFileAccumulation ==
    []AccumulatedAcrossFiles /\ [][UntouchedByOtherFiles]_vars

\* C6 as stated: when to_xg has returned, every mapping taken for a name is
\* in the record of that name exactly once, and the record has as many
\* mappings as were taken for the name.
C6_Lossless ==
    XGDone =>
        \A n \in Taken :
            /\ Len(Record(n)) = Len(FiledFor(n))
            /\ \A f \in Range(FiledFor(n)) :
                   Cardinality({i \in DOMAIN Record(n) :
                                   Record(n)[i].node = f.node}) = 1

(***************************************************************************)
(* Properties of index_kmers.                                              *)
(***************************************************************************)
InAction == op = "index_kmers" /\ pc \in {"enumerate", "delete"}

Delivered == KmerOccurrences(g.nodes) \ pending

Canonical(o) == Range(o.sequence) \subseteq {"A", "C", "G", "T"}

Entry(o) ==
    [sequence |-> o.sequence, node_id |-> o.node_id, position |-> o.position]

\* The places of an occurrence in the batches written for the graph at hand.
Written(o) ==
    {<<b, i>> \in batches \X (1..(buffer_max_size + 1)) :
        i \in DOMAIN b.entries /\ b.entries[i] = Entry(o)}

\* Its places in the buffers the final flush has yet to write.
Buffered(o) ==
    {<<t, i>> \in (DOMAIN buffer \ flushed) \X (1..(buffer_max_size + 1)) :
        i \in DOMAIN buffer[t] /\ batch_kmer(buffer[t][i]) = Entry(o)}

\* C7: every delivered occurrence made of A, C, G, T only is in exactly one
\* batch, or still in one buffer that the final flush has yet to write, and
\* once the action is over it is in exactly one batch; an occurrence with
\* another symbol is in no buffer and no batch; batches and buffers hold
\* nothing else, and the index holds what the batches held.
C7_ExactlyCanonicalOnce ==
    InAction
        => /\ \A o \in Delivered :
                  Cardinality(Written(o)) + Cardinality(Buffered(o))
                      = IF Canonical(o) THEN 1 ELSE 0
           /\ \A b \in batches :
                  /\ Len(b.entries) <= buffer_max_size + 1
                  /\ Range(b.entries) \subseteq {Entry(o) : o \in Delivered}
                  /\ Range(b.entries) \subseteq index.kmers
           /\ \A t \in DOMAIN buffer :
                  /\ Len(buffer[t]) <= buffer_max_size + 1
                  /\ \A i \in DOMAIN buffer[t] :
                         batch_kmer(buffer[t][i]) \in {Entry(o) : o \in Delivered}
           /\ \A k \in index.kmers : Canonical(k)
           /\ pc = "delete"
                => \A o \in KmerOccurrences(g.nodes) :
                       Cardinality(Written(o)) = IF Canonical(o) THEN 1 ELSE 0

\* A graph is done whose occurrences went to an inline batch and to a final
\* batch, one occurrence having been dropped.
C7_Witness ==
    /\ InAction
    /\ pc = "delete"
    /\ \E o \in KmerOccurrences(g.nodes) : ~Canonical(o)
    /\ \E b \in batches : b.inline
    /\ \E b \in batches : ~b.inline /\ b.entries # <<>>

InlineBatches(t) == {b \in batches : b.inline /\ b.tid = t}

\* C8: a thread that has pushed buffer_max_size + 1 matches for a graph has
\* made exactly one inline flush, and until the buffers are cleared its
\* buffer holds exactly the pushed matches that are not in that batch.
C8_FlushBoundary ==
    (op = "index_kmers" /\ pc = "enumerate")
        => \A t \in Threads :
               Len(pushed[t]) = buffer_max_size + 1
                   => /\ Cardinality(InlineBatches(t)) = 1
                      /\ \A b \in InlineBatches(t) :
                             buffer[t] = SelectSeq(pushed[t],
                                 LAMBDA k : batch_kmer(k) \notin Range(b.entries))

\* The final flush is about to run on a buffer that took buffer_max_size + 1
\* matches.
C8_Witness ==
    /\ op = "index_kmers"
    /\ pc = "enumerate"
    /\ pending = {}
    /\ flushed = {}
    /\ \E t \in Threads : Len(pushed[t]) = buffer_max_size + 1

Returned(i) == \E e \in Range(events) : e.ev = "delete" /\ e.pos = i

\* C9: the k-mer length is recorded at most once; once it is recorded the
\* action has returned for every graph of the set (so every batch has been
\* written) and nothing more happens; a run that completes has recorded it,
\* a run aborted by a failed open has not.
C9_KmerSizeOnceAtEnd ==
    op = "index_kmers"
        => /\ Len(index.kmer_sizes) <= 1
           /\ index.kmer_sizes # <<>>
                => /\ index.kmer_sizes = <<KmerSize>>
                   /\ pc = "done"
                   /\ \A i \in DOMAIN filenames : Returned(i)
                   /\ ~ENABLED NextKmer
           /\ pc = "done" => index.kmer_sizes # <<>>
           /\ pc = "failed" => index.kmer_sizes = <<>>

\* A set of two graphs has been indexed and the length recorded.
C9_Witness ==
    /\ op = "index_kmers"
    /\ pc = "done"
    /\ Len(filenames) >= 2
    /\ index.kmers # {}
    /\ index.kmer_sizes = <<KmerSize>>

\* An aborted run: batches of an earlier graph are in the index.
C9_AbortedRun ==
    /\ op = "index_kmers"
    /\ pc = "failed"
    /\ index.kmers # {}

EnumTouches == {t \in touches : t.how # "final"}

FinalTouches(i) == {t \in touches : t.how = "final" /\ t.buffer = i}

\* A buffer is appended to and flushed inline by one worker only.
OwnBuffers ==
    \A t, u \in EnumTouches : t.buffer = u.buffer => t.worker = u.worker

\* While the action runs, a buffer has had its final write once if the loop
\* has been through it, and not at all otherwise.
FinalOnce ==
    pc = "enumerate" =>
        \A i \in Threads :
            Cardinality(FinalTouches(i)) = IF i \in flushed THEN 1 ELSE 0

\* The action returns with every buffer written.
AllWrittenAtReturn ==
    (pc = "enumerate" /\ pc' = "delete") =>
        \A i \in Threads : Cardinality(FinalTouches(i)) = 1

\* A step that changes the keys of the index adds the keys of one batch,
\* all of them.
WholeBatches ==
    index'.kmers # index.kmers =>
        \E b \in batches' :
            index'.kmers = index.kmers \cup Range(b.entries)

\* C18: in index_kmers a buffer is appended to and flushed inline by one
\* worker only, whatever the interleaving; the final loop writes every
\* buffer exactly once before the action returns; and the index takes a
\* batch as a whole.
C18_BufferOwnership ==
    [](OwnBuffers /\ FinalOnce) /\ [][AllWrittenAtReturn /\ WholeBatches]_vars

\* Both workers have appended to their buffers, one of them has flushed
\* inline, and the final loop has written both buffers.
C18_Witness ==
    /\ op = "index_kmers"
    /\ pc = "enumerate"
    /\ flushed = Threads
    /\ \A w \in Threads : Touch(w, w, "append") \in touches
    /\ \E t \in touches : t.how = "inline"
    /\ \A i \in Threads : Cardinality(FinalTouches(i)) = 1

\* C19, with the 100,000 of line 204 as buffer_max_size: between callbacks a
\* buffer holds at most buffer_max_size matches; a callback takes it to at
\* most buffer_max_size + 1 before it writes and clears it; and no batch,
\* inline or final, has more than buffer_max_size + 1 matches.
C19_BufferBound ==
    /\ pc = "enumerate" =>
           \A t \in Threads : Len(buffer[t]) <= buffer_max_size
    /\ \A b \in batches :
           /\ Len(b.entries) <= buffer_max_size + 1
           /\ ~b.inline => Len(b.entries) <= buffer_max_size

\* A buffer is full, another has been written inline with one match more
\* than a full buffer holds.
C19_Witness ==
    /\ op = "index_kmers"
    /\ pc = "enumerate"
    /\ \E t \in Threads : Len(buffer[t]) = buffer_max_size
    /\ \E b \in batches : b.inline /\ Len(b.entries) = buffer_max_size + 1


====
